---- MODULE Spec2Model ----
(***************************************************************************)
(* The CoAP option codec of src/message/option/mod.rs: the format registry *)
(* (format::get_by_number), the lenient decoder (Option::from_raw and the  *)
(* should_be_* classifiers), the strict per-kind constructors generated by *)
(* the options! table, the option header encoder (build_header) and the    *)
(* Options collection (push / get_all_of / iter).                          *)
(*                                                                         *)
(* Representation.  A byte is a number in 0..255 and a byte string a       *)
(* sequence of bytes.  A Rust String is the sequence of its UTF-8 bytes    *)
(* (always valid UTF-8).  An unsigned integer of w bytes is the sequence   *)
(* of its w base-256 digits, most significant first, so that u64 is 8      *)
(* digits, u32 4, u16 2 and u8 1: shifts, casts and comparisons keep the   *)
(* width the code gives them.                                              *)
(***************************************************************************)
EXTENDS Integers, Sequences, FiniteSets, TLC

VARIABLES
    pc,        \* which operation produced the current state
    number,    \* codec input: the option number (u16)
    bytes,     \* codec input: the raw value bytes
    opt,       \* a typed Option built by application code
    out,       \* the result of the last codec operation
    cursor,    \* build_header: *last_option_number
    option,    \* build_header: the Byteable handed to the last call
    before,    \* build_header: the cursor before the last call
    header,    \* build_header: the header returned, or the panic
    count,     \* build_header: calls made for this message
    running,   \* the receiving side's running option number
    map,       \* Options.map: OptionKind -> Vec<OptionType>
    log,       \* every OptionType pushed so far, in push order
    place,     \* OptionsIterator.place
    yielded    \* what the iterator has yielded so far

vars == <<pc, number, bytes, opt, out, cursor, option, before, header, count,
          running, map, log, place, yielded>>

codecVars == <<number, bytes, opt, out>>
headerVars == <<cursor, option, before, header, count, running>>
optionsVars == <<map, log, place, yielded>>

\* ------------------------------------------------------------- bounds
\* Input byte strings are a prefix of at most MaxPrefixLen bytes drawn from
\* ByteAlphabet, followed by a run of the byte 97 ('a').
MaxPrefixLen == 2
\* Input option numbers are 0..MaxNumber and the numbers of ExtraNumbers.
MaxNumber == 40

ByteAlphabet == {0, 65, 128, 195}
PadLens == {0, 1, 2, 6, 7, 253, 254, 1032, 1033}
ExtraNumbers == {60, 284, 285, 65535}

Pad(n) == [i \in 1..n |-> 97]
Prefixes == UNION {[1..k -> ByteAlphabet] : k \in 0..MaxPrefixLen}
TestBytes == {p \o Pad(n) : p \in Prefixes, n \in PadLens}
TestNumbers == (0..MaxNumber) \cup ExtraNumbers

\* ------------------------------------------------------------- integers
\* u64 zero, n << 8 | b, n >> 8, and n as u8 on 8-digit integers.
Zero64 == <<0, 0, 0, 0, 0, 0, 0, 0>>
ShlOr(n, b) == SubSeq(n, 2, 8) \o <<b>>
Shr8(n) == <<0>> \o SubSeq(n, 1, 7)
LowByte(n) == n[Len(n)]

\* `n as uW` for a wider n: the low w digits.
Truncate(n, w) == SubSeq(n, Len(n) - w + 1, Len(n))
\* `n as u64` for a narrower n: zero extension.
Widen(n) == [i \in 1..(8 - Len(n)) |-> 0] \o n

\* ------------------------------------------------------------- UTF-8
\* str::from_utf8 / String::from_utf8 accept exactly the well-formed UTF-8
\* byte strings: every byte is ASCII, or a lead byte followed by exactly its
\* continuation bytes, or a continuation byte owned by a lead byte before it.
IsCont(b) == b \in 128..191

Following(b) ==
    IF b \in 194..223 THEN 1
    ELSE IF b \in 224..239 THEN 2
    ELSE IF b \in 240..244 THEN 3
    ELSE 0

SecondOk(lead, b) ==
    IF lead = 224 THEN b \in 160..191
    ELSE IF lead = 237 THEN b \in 128..159
    ELSE IF lead = 240 THEN b \in 144..191
    ELSE IF lead = 244 THEN b \in 128..143
    ELSE IsCont(b)

IsUtf8(s) ==
    \A i \in 1..Len(s) :
        LET b == s[i] IN
        IF b \in 0..127 THEN TRUE
        ELSE IF b \in 194..244
        THEN /\ i + Following(b) <= Len(s)
             /\ SecondOk(b, s[i + 1])
             /\ \A j \in 2..Following(b) : IsCont(s[i + j])
        ELSE IF IsCont(b)
        THEN \E d \in 1..3 :
                /\ i - d >= 1
                /\ Following(s[i - d]) >= d
                /\ \A j \in 1..(d - 1) : IsCont(s[i - j])
        ELSE FALSE

\* ------------------------------------------------------------- formats
\* format::Format
FormatEmpty == [fmt |-> "Empty"]
FormatOpaque(min, max) == [fmt |-> "Opaque", min |-> min, max |-> max]
FormatString(min, max) == [fmt |-> "String", min |-> min, max |-> max]
FormatUInt(min, max) == [fmt |-> "UInt", min |-> min, max |-> max]

\* format::get_by_number with number 29 registered as the spec's table has it.
get_by_number_with_29(n) ==
    CASE n = 1 -> FormatOpaque(0, 8)
      [] n = 3 -> FormatString(1, 255)
      [] n = 4 -> FormatOpaque(0, 0)
      [] n = 5 -> FormatEmpty
      [] n = 6 -> FormatUInt(0, 4)
      [] n = 7 -> FormatUInt(0, 2)
      [] n = 8 -> FormatString(0, 255)
      [] n = 11 -> FormatString(0, 255)
      [] n = 12 -> FormatUInt(0, 2)
      [] n = 14 -> FormatUInt(0, 4)
      [] n = 15 -> FormatString(0, 255)
      [] n = 17 -> FormatUInt(0, 2)
      [] n = 20 -> FormatString(0, 255)
      [] n = 29 -> FormatString(1, 255)
      [] n = 35 -> FormatString(0, 1034)
      [] n = 39 -> FormatString(0, 255)
      [] n = 60 -> FormatUInt(0, 4)
      [] n = 284 -> FormatUInt(0, 1)
      [] OTHER -> FormatOpaque(0, 65535)

\* format::get_by_number
get_by_number(n) ==
    CASE n = 1 -> FormatOpaque(0, 8)
      [] n = 3 -> FormatString(1, 255)
      [] n = 4 -> FormatOpaque(0, 0)
      [] n = 5 -> FormatEmpty
      [] n = 6 -> FormatUInt(0, 4)
      [] n = 7 -> FormatUInt(0, 2)
      [] n = 8 -> FormatString(0, 255)
      [] n = 11 -> FormatString(0, 255)
      [] n = 12 -> FormatUInt(0, 2)
      [] n = 14 -> FormatUInt(0, 4)
      [] n = 15 -> FormatString(0, 255)
      [] n = 17 -> FormatUInt(0, 2)
      [] n = 20 -> FormatString(0, 255)
      [] n = 35 -> FormatString(0, 1034)
      [] n = 39 -> FormatString(0, 255)
      [] n = 60 -> FormatUInt(0, 4)
      [] n = 284 -> FormatUInt(0, 1)
      [] OTHER -> FormatOpaque(0, 65535)

\* ------------------------------------------------------------- value decoder
\* value::Value
ValueEmpty == [tag |-> "Empty"]
ValueOpaque(v) == [tag |-> "Opaque", v |-> v]
ValueString(s) == [tag |-> "String", v |-> s]
ValueUInt(n) == [tag |-> "UInt", v |-> n]

\* The loop of should_be_uint: num = (num << 8) | byte, over the bytes in order.
RECURSIVE AccumulateOr(_, _)
AccumulateOr(num, value) ==
    IF value = <<>> THEN num
    ELSE AccumulateOr(ShlOr(num, Head(value)), Tail(value))

should_be_empty(value) ==
    IF Len(value) = 0 THEN ValueEmpty ELSE ValueOpaque(value)

should_be_string(value, min, max) ==
    IF Len(value) < min \/ Len(value) > max THEN ValueOpaque(value)
    ELSE IF IsUtf8(value) THEN ValueString(value)
    ELSE ValueOpaque(value)

should_be_uint(value, min, max) ==
    IF Len(value) >= min /\ Len(value) <= max
    THEN ValueUInt(AccumulateOr(Zero64, value))
    ELSE ValueOpaque(value)

should_be_opaque(value, min, max) == ValueOpaque(value)

\* The first match of Option::from_raw: the classification by format.
Classify(n, value) ==
    LET f == get_by_number(n) IN
    CASE f.fmt = "Empty" -> should_be_empty(value)
      [] f.fmt = "Opaque" -> should_be_opaque(value, f.min, f.max)
      [] f.fmt = "UInt" -> should_be_uint(value, f.min, f.max)
      [] f.fmt = "String" -> should_be_string(value, f.min, f.max)

\* ------------------------------------------------------------- typed Option
\* enum Option: each variant with the width of the integer it carries
\* (0 for the variants that carry bytes, a String or nothing).
OptionVariants == <<
    [kind |-> "IfMatch",       repr |-> "bytes",  width |-> 0],
    [kind |-> "UriHost",       repr |-> "string", width |-> 0],
    [kind |-> "ETag",          repr |-> "bytes",  width |-> 0],
    [kind |-> "IfNoneMatch",   repr |-> "unit",   width |-> 0],
    [kind |-> "Observe",       repr |-> "uint",   width |-> 4],
    [kind |-> "UriPort",       repr |-> "uint",   width |-> 2],
    [kind |-> "LocationPath",  repr |-> "string", width |-> 0],
    [kind |-> "UriPath",       repr |-> "string", width |-> 0],
    [kind |-> "ContentFormat", repr |-> "uint",   width |-> 2],
    [kind |-> "MaxAge",        repr |-> "uint",   width |-> 4],
    [kind |-> "UriQuery",      repr |-> "string", width |-> 0],
    [kind |-> "Accept",        repr |-> "uint",   width |-> 2],
    [kind |-> "LocationQuery", repr |-> "string", width |-> 0],
    [kind |-> "ProxyUri",      repr |-> "string", width |-> 0],
    [kind |-> "ProxyScheme",   repr |-> "string", width |-> 0],
    [kind |-> "Size1",         repr |-> "uint",   width |-> 4],
    [kind |-> "NoResponse",    repr |-> "uint",   width |-> 1] >>

KnownKinds == {OptionVariants[i].kind : i \in 1..Len(OptionVariants)}
Variant(k) == OptionVariants[CHOOSE i \in 1..Len(OptionVariants) : OptionVariants[i].kind = k]

Typed(k, v) == [kind |-> k, value |-> v]
Unknown(n, v) == [kind |-> "Unknown", number |-> n, value |-> v]
Panic(msg) == [kind |-> "panic", msg |-> msg]

\* The arms of the second match of Option::from_raw, in order: the number, the
\* Value variant it must come with, and the Option variant built.
FromRawArms == <<
    [num |-> 1,   tag |-> "Opaque", kind |-> "IfMatch"],
    [num |-> 3,   tag |-> "String", kind |-> "UriHost"],
    [num |-> 4,   tag |-> "Opaque", kind |-> "ETag"],
    [num |-> 5,   tag |-> "Empty",  kind |-> "IfNoneMatch"],
    [num |-> 6,   tag |-> "UInt",   kind |-> "Observe"],
    [num |-> 7,   tag |-> "UInt",   kind |-> "UriPort"],
    [num |-> 8,   tag |-> "String", kind |-> "LocationPath"],
    [num |-> 11,  tag |-> "String", kind |-> "UriPath"],
    [num |-> 12,  tag |-> "UInt",   kind |-> "ContentFormat"],
    [num |-> 14,  tag |-> "UInt",   kind |-> "MaxAge"],
    [num |-> 15,  tag |-> "String", kind |-> "UriQuery"],
    [num |-> 17,  tag |-> "UInt",   kind |-> "Accept"],
    [num |-> 20,  tag |-> "String", kind |-> "LocationQuery"],
    [num |-> 35,  tag |-> "String", kind |-> "ProxyUri"],
    [num |-> 39,  tag |-> "String", kind |-> "ProxyScheme"],
    [num |-> 60,  tag |-> "UInt",   kind |-> "Size1"],
    [num |-> 284, tag |-> "UInt",   kind |-> "NoResponse"] >>

\* The value an arm stores: the bytes or the String as they are, nothing for
\* Empty, and `v as uW` for an integer.
ArmValue(k, parsed) ==
    CASE parsed.tag = "Empty" -> <<>>
      [] parsed.tag = "UInt" -> Truncate(parsed.v, Variant(k).width)
      [] OTHER -> parsed.v

\* Option::from_raw (lenient): the first arm that matches (number, parsed_value),
\* then (_, Opaque) => Unknown, then the panic.
Option_from_raw(n, value) ==
    LET parsed == Classify(n, value)
        hits == {i \in 1..Len(FromRawArms) :
                    FromRawArms[i].num = n /\ FromRawArms[i].tag = parsed.tag}
    IN  IF hits # {}
        THEN LET arm == FromRawArms[CHOOSE i \in hits : \A j \in hits : i <= j]
             IN  Typed(arm.kind, ArmValue(arm.kind, parsed))
        ELSE IF parsed.tag = "Opaque" THEN Unknown(n, parsed.v)
        ELSE Panic("unhandled option number, format combination")

\* Option::number with ProxyScheme numbered as the options! table numbers it.
Option_number_29(o) ==
    CASE o.kind = "IfMatch" -> 1
      [] o.kind = "UriHost" -> 3
      [] o.kind = "ETag" -> 4
      [] o.kind = "IfNoneMatch" -> 5
      [] o.kind = "Observe" -> 6
      [] o.kind = "UriPort" -> 7
      [] o.kind = "LocationPath" -> 8
      [] o.kind = "UriPath" -> 11
      [] o.kind = "ContentFormat" -> 12
      [] o.kind = "MaxAge" -> 14
      [] o.kind = "UriQuery" -> 15
      [] o.kind = "Accept" -> 17
      [] o.kind = "LocationQuery" -> 20
      [] o.kind = "ProxyUri" -> 35
      [] o.kind = "ProxyScheme" -> 29
      [] o.kind = "Size1" -> 60
      [] o.kind = "NoResponse" -> 284
      [] o.kind = "Unknown" -> o.number

\* Option::number
Option_number(o) ==
    CASE o.kind = "IfMatch" -> 1
      [] o.kind = "UriHost" -> 3
      [] o.kind = "ETag" -> 4
      [] o.kind = "IfNoneMatch" -> 5
      [] o.kind = "Observe" -> 6
      [] o.kind = "UriPort" -> 7
      [] o.kind = "LocationPath" -> 8
      [] o.kind = "UriPath" -> 11
      [] o.kind = "ContentFormat" -> 12
      [] o.kind = "MaxAge" -> 14
      [] o.kind = "UriQuery" -> 15
      [] o.kind = "Accept" -> 17
      [] o.kind = "LocationQuery" -> 20
      [] o.kind = "ProxyUri" -> 35
      [] o.kind = "ProxyScheme" -> 39
      [] o.kind = "Size1" -> 60
      [] o.kind = "NoResponse" -> 284
      [] o.kind = "Unknown" -> o.number

\* Option::integer_to_bytes: push the low byte while n != 0, then reverse.
RECURSIVE integer_to_bytes(_)
integer_to_bytes(n) ==
    IF n = Zero64 THEN <<>>
    ELSE integer_to_bytes(Shr8(n)) \o <<LowByte(n)>>

\* Option::value_to_bytes
Option_value_to_bytes(o) ==
    IF o.kind = "Unknown" THEN o.value
    ELSE CASE Variant(o.kind).repr = "uint" -> integer_to_bytes(Widen(o.value))
           [] Variant(o.kind).repr = "unit" -> <<>>
           [] OTHER -> o.value

\* Option::value_len
Option_value_len(o) ==
    IF o.kind = "Unknown" THEN Len(o.value)
    ELSE CASE Variant(o.kind).repr = "uint" -> Len(integer_to_bytes(Widen(o.value)))
           [] Variant(o.kind).repr = "unit" -> 0
           [] OTHER -> Len(o.value)

\* ------------------------------------------------------------- strict catalog
\* The options! table: (number, name, format, min, max), in declaration order.
OptionsTable == <<
    [num |-> 1,   name |-> "IfMatch",       format |-> "opaque", min |-> 0,  max |-> 8],
    [num |-> 3,   name |-> "UriHost",       format |-> "string", min |-> 1,  max |-> 8],
    [num |-> 4,   name |-> "ETag",          format |-> "opaque", min |-> 0,  max |-> 8],
    [num |-> 5,   name |-> "IfNoneMatch",   format |-> "empty",  min |-> -1, max |-> -1],
    [num |-> 6,   name |-> "Observe",       format |-> "uint",   min |-> 0,  max |-> 4],
    [num |-> 7,   name |-> "UriPort",       format |-> "uint",   min |-> 0,  max |-> 2],
    [num |-> 8,   name |-> "LocationPath",  format |-> "string", min |-> 0,  max |-> 255],
    [num |-> 11,  name |-> "UriPath",       format |-> "string", min |-> 0,  max |-> 255],
    [num |-> 12,  name |-> "ContentFormat", format |-> "uint",   min |-> 0,  max |-> 2],
    [num |-> 14,  name |-> "MaxAge",        format |-> "uint",   min |-> 0,  max |-> 4],
    [num |-> 15,  name |-> "UriQuery",      format |-> "string", min |-> 0,  max |-> 255],
    [num |-> 17,  name |-> "Accept",        format |-> "uint",   min |-> 0,  max |-> 2],
    [num |-> 20,  name |-> "LocationQuery", format |-> "string", min |-> 0,  max |-> 255],
    [num |-> 35,  name |-> "ProxyUri",      format |-> "string", min |-> 1,  max |-> 1034],
    [num |-> 29,  name |-> "ProxyScheme",   format |-> "string", min |-> 1,  max |-> 255],
    [num |-> 60,  name |-> "Size1",         format |-> "uint",   min |-> 0,  max |-> 4],
    [num |-> 284, name |-> "NoResponse",    format |-> "uint",   min |-> 0,  max |-> 1] >>

TableNumbers == {OptionsTable[i].num : i \in 1..Len(OptionsTable)}
RowOfNumber(n) == OptionsTable[CHOOSE i \in 1..Len(OptionsTable) : OptionsTable[i].num = n]
RowOfKind(k) == OptionsTable[CHOOSE i \in 1..Len(OptionsTable) : OptionsTable[i].name = k]

Ok(o) == [ok |-> TRUE, o |-> o]
Err(e) == [ok |-> FALSE, err |-> e]

\* bytes_to_value of the uint from_bytes: value = (value << 8) + byte; the
\* shifted value has a zero low byte, so the sum sets exactly that byte.
RECURSIVE bytes_to_value(_, _)
bytes_to_value(value, bs) ==
    IF bs = <<>> THEN value
    ELSE bytes_to_value(ShlOr(value, Head(bs)), Tail(bs))

\* $name::from_bytes, as option! generates it for the row's format; the struct
\* built is {value}, tagged here with the row's name.
from_bytes(row, bs) ==
    CASE row.format = "opaque" ->
            IF Len(bs) >= row.min /\ Len(bs) <= row.max
            THEN Ok(Typed(row.name, bs))
            ELSE Err("MessageFormat")
      [] row.format = "string" ->
            IF Len(bs) >= row.min /\ Len(bs) <= row.max
            THEN IF IsUtf8(bs) THEN Ok(Typed(row.name, bs)) ELSE Err("MessageFormat")
            ELSE Err("MessageFormat")
      [] row.format = "empty" ->
            IF Len(bs) # 0 THEN Ok(Typed(row.name, <<>>)) ELSE Err("MessageFormat")
      [] row.format = "uint" ->
            IF Len(bs) >= row.min /\ Len(bs) <= row.max
            THEN Ok(Typed(row.name, bytes_to_value(Zero64, bs)))
            ELSE Err("MessageFormat")

\* The module-level from_raw (strict): dispatch on the number to the row's
\* from_bytes; any other number builds Unknown and sets its number.
from_raw(n, v) ==
    IF n \in TableNumbers THEN from_bytes(RowOfNumber(n), v)
    ELSE Ok(Unknown(n, v))

\* Byteable::number of an OptionType's struct: the row's $num, or Unknown.number.
Byteable_number(o) ==
    IF o.kind = "Unknown" THEN o.number ELSE RowOfKind(o.kind).num

\* Byteable::to_bytes
Byteable_to_bytes(o) ==
    IF o.kind = "Unknown" THEN o.value
    ELSE CASE RowOfKind(o.kind).format = "uint" -> integer_to_bytes(o.value)
           [] RowOfKind(o.kind).format = "empty" -> <<>>
           [] OTHER -> o.value

\* Byteable::bytes_len
Byteable_bytes_len(o) ==
    IF o.kind = "Unknown" THEN Len(o.value)
    ELSE CASE RowOfKind(o.kind).format = "uint" -> Len(integer_to_bytes(o.value))
           [] RowOfKind(o.kind).format = "empty" -> 0
           [] OTHER -> Len(o.value)

\* ------------------------------------------------------------- codec operations
None == [kind |-> "none"]

\* The Option values application code can build from the inputs: the variant
\* numbered `number` holding the input bytes (as bytes, as a String when they
\* are UTF-8, as the big-endian integer when they fit its width), and
\* Unknown((number, bytes)).
Constructible(n, bs) ==
    {Unknown(n, bs)} \cup
    {Typed(OptionVariants[i].kind,
           IF OptionVariants[i].repr = "uint"
           THEN Truncate(AccumulateOr(Zero64, bs), OptionVariants[i].width)
           ELSE bs) :
        i \in {j \in 1..Len(OptionVariants) :
                /\ Option_number(Typed(OptionVariants[j].kind, <<>>)) = n
                /\ \/ OptionVariants[j].repr = "bytes"
                   \/ OptionVariants[j].repr = "string" /\ IsUtf8(bs)
                   \/ OptionVariants[j].repr = "unit" /\ bs = <<>>
                   \/ OptionVariants[j].repr = "uint" /\ Len(bs) <= OptionVariants[j].width}}

HeaderIdle ==
    /\ cursor = 0 /\ option = None /\ before = 0
    /\ header = <<>> /\ count = 0 /\ running = 0

OptionsIdle ==
    /\ map = <<>> /\ log = <<>> /\ place = 0 /\ yielded = <<>>

Init ==
    /\ pc = "input"
    /\ number \in TestNumbers
    /\ bytes \in TestBytes
    /\ opt = None
    /\ out = None
    /\ HeaderIdle
    /\ OptionsIdle

\* format::get_by_number(number)
GetByNumber ==
    /\ pc = "input"
    /\ pc' = "get_by_number"
    /\ out' = get_by_number(number)
    /\ UNCHANGED <<number, bytes, opt, headerVars, optionsVars>>

\* Option::from_raw(number, bytes)
FromRaw ==
    /\ pc = "input"
    /\ pc' = "from_raw"
    /\ out' = Option_from_raw(number, bytes)
    /\ UNCHANGED <<number, bytes, opt, headerVars, optionsVars>>

\* from_raw(number, bytes), the strict module-level function
StrictFromRaw ==
    /\ pc = "input"
    /\ pc' = "strict_from_raw"
    /\ out' = from_raw(number, bytes)
    /\ UNCHANGED <<number, bytes, opt, headerVars, optionsVars>>

\* Application code builds an Option value.
Construct ==
    /\ pc = "input"
    /\ pc' = "constructed"
    /\ opt' \in Constructible(number, bytes)
    /\ UNCHANGED <<number, bytes, out, headerVars, optionsVars>>

\* Option::from_raw(opt.number(), opt.value_to_bytes())
RoundTrip ==
    /\ pc = "constructed"
    /\ pc' = "roundtrip"
    /\ out' = Option_from_raw(Option_number(opt), Option_value_to_bytes(opt))
    /\ UNCHANGED <<number, bytes, opt, headerVars, optionsVars>>

\* ------------------------------------------------------------- semantics predicates
\* a & b on u16 operands, bit by bit.
RECURSIVE AndBits(_, _, _)
AndBits(a, b, k) ==
    IF k = 0 THEN 0
    ELSE (a % 2) * (b % 2) + 2 * AndBits(a \div 2, b \div 2, k - 1)

BitAnd(a, b) == AndBits(a, b, 16)

\* Option::is_critical, is_elective
is_critical(o) == BitAnd(Option_number(o), 1) # 0
is_elective(o) == BitAnd(Option_number(o), 1) = 0

\* Option::is_unsafe_to_forward, is_safe_to_forward
is_unsafe_to_forward(o) == BitAnd(Option_number(o), 2) # 0
is_safe_to_forward(o) == BitAnd(Option_number(o), 2) = 0

\* is_no_cache_key with the mask 0x1c in place of 0x1e.
is_no_cache_key_mask_1c(o) == BitAnd(Option_number(o), 28) = 28

\* Option::is_no_cache_key, is_cache_key (0x1e = 30, 0x1c = 28)
is_no_cache_key(o) == BitAnd(Option_number(o), 30) = 28
is_cache_key(o) == BitAnd(Option_number(o), 30) # 28

\* The six predicates of the Option built.
Predicates ==
    /\ pc = "constructed"
    /\ pc' = "predicates"
    /\ out' = [critical |-> is_critical(opt),
               elective |-> is_elective(opt),
               unsafe_to_forward |-> is_unsafe_to_forward(opt),
               safe_to_forward |-> is_safe_to_forward(opt),
               no_cache_key |-> is_no_cache_key(opt),
               cache_key |-> is_cache_key(opt)]
    /\ UNCHANGED <<number, bytes, opt, headerVars, optionsVars>>

\* Both decode paths on the same input: from_raw(number, bytes) and
\* Option::from_raw(number, bytes).
DecodeBoth ==
    /\ pc = "input"
    /\ pc' = "decoded_both"
    /\ out' = [strict |-> from_raw(number, bytes),
               lenient |-> Option_from_raw(number, bytes)]
    /\ UNCHANGED <<number, bytes, opt, headerVars, optionsVars>>

Next ==
    \/ GetByNumber
    \/ FromRaw
    \/ StrictFromRaw
    \/ Construct
    \/ RoundTrip
    \/ Predicates
    \/ DecodeBoth

Spec == Init /\ [][Next]_vars

\* ------------------------------------------------------------- the spec's tables
\* The format table of the specification's section 4.1 (lenient column).
SpecFormat(n) ==
    CASE n = 1 -> FormatOpaque(0, 8)
      [] n = 3 -> FormatString(1, 255)
      [] n = 4 -> FormatOpaque(0, 0)
      [] n = 5 -> FormatEmpty
      [] n = 6 -> FormatUInt(0, 4)
      [] n = 7 -> FormatUInt(0, 2)
      [] n \in {8, 11} -> FormatString(0, 255)
      [] n = 12 -> FormatUInt(0, 2)
      [] n = 14 -> FormatUInt(0, 4)
      [] n = 15 -> FormatString(0, 255)
      [] n = 17 -> FormatUInt(0, 2)
      [] n = 20 -> FormatString(0, 255)
      [] n \in {29, 39} -> FormatString(1, 255)
      [] n = 35 -> FormatString(1, 1034)
      [] n = 60 -> FormatUInt(0, 4)
      [] n = 284 -> FormatUInt(0, 1)
      [] OTHER -> FormatOpaque(0, 65535)

\* The byte lengths the specification's catalog allows each kind.
SpecKindLens(k) ==
    CASE k \in {"IfMatch", "ETag"} -> 0..8
      [] k \in {"UriHost", "ProxyScheme"} -> 1..255
      [] k \in {"LocationPath", "UriPath", "UriQuery", "LocationQuery"} -> 0..255
      [] k = "ProxyUri" -> 1..1034
      [] k \in {"Observe", "MaxAge", "Size1"} -> 0..4
      [] k \in {"UriPort", "ContentFormat", "Accept"} -> 0..2
      [] k = "NoResponse" -> 0..1
      [] k = "IfNoneMatch" -> 0..0

\* ------------------------------------------------------------- claims: codec

\* C2: lenient Option::from_raw(number, bytes) never ends in the panic, and
\* returns either a typed kind whose number() is the input number or
\* Unknown((number, bytes)) with the input number and bytes unchanged.
C2_LenientNeverFails ==
    pc = "from_raw" =>
        /\ out.kind # "panic"
        /\ \/ out = Unknown(number, bytes)
           \/ out.kind \in KnownKinds /\ Option_number(out) = number

\* C2 witness: bytes that are not UTF-8 under UriPath's number degrade to Unknown.
C2_Witness ==
    /\ pc = "from_raw"
    /\ number = 11
    /\ ~IsUtf8(bytes)
    /\ out = Unknown(11, bytes)

\* C6: for every known kind and every value whose serialized length is within
\* the kind's bounds, Option::from_raw(o.number(), o.value_to_bytes()) = o; an
\* integer serializes without leading zero bytes, and zero to the empty buffer.
C6_ValueRoundTrip ==
    (pc = "roundtrip" /\ opt.kind \in KnownKinds
        /\ Len(Option_value_to_bytes(opt)) \in SpecKindLens(opt.kind)) =>
        /\ out = opt
        /\ Variant(opt.kind).repr = "uint" =>
            LET vb == Option_value_to_bytes(opt) IN
            /\ vb = <<>> \/ vb[1] # 0
            /\ (\A i \in 1..Len(opt.value) : opt.value[i] = 0) => vb = <<>>

\* C6 witness: UriPort(65) built from the bytes {0, 65} serializes to {65} and
\* decodes back to UriPort(65).
C6_Witness ==
    /\ pc = "roundtrip"
    /\ bytes = <<0, 65>>
    /\ opt = Typed("UriPort", <<0, 65>>)
    /\ Option_value_to_bytes(opt) = <<65>>
    /\ out = opt

\* C7: format::get_by_number(number) is the format the specification's table
\* gives for every number.
C7_RegistryMatchesSpecTable ==
    pc = "get_by_number" => out = SpecFormat(number)

\* C8: for every opaque, string and unsigned-integer kind the strict
\* constructor succeeds exactly when the length is within the bounds the
\* specification lists for the kind and, for a string kind, the bytes are
\* UTF-8; otherwise it returns the MessageFormat error.
C8_StrictBoundsMatchSpecTable ==
    (pc = "strict_from_raw" /\ number \in TableNumbers
        /\ RowOfNumber(number).format # "empty") =>
        LET row == RowOfNumber(number) IN
        /\ out.ok <=> /\ Len(bytes) \in SpecKindLens(row.name)
                      /\ row.format = "string" => IsUtf8(bytes)
        /\ ~out.ok => out.err = "MessageFormat"

\* C9: every typed Option returned by lenient Option::from_raw holds a value
\* whose serialized length is within the [min,max] of the number's format, and
\* raw bytes whose length is outside it come back as Unknown((number, bytes)).
C9_LenientValueWithinBounds ==
    (pc = "from_raw" /\ get_by_number(number).fmt # "Empty") =>
        LET f == get_by_number(number) IN
        /\ out.kind \in KnownKinds =>
            Len(Option_value_to_bytes(out)) \in f.min..f.max
        /\ Len(bytes) \notin f.min..f.max => out = Unknown(number, bytes)

\* C11: for every Option, is_critical # is_elective, is_unsafe_to_forward #
\* is_safe_to_forward, is_cache_key # is_no_cache_key; is_critical holds
\* exactly when bit 0 of number() is set, is_unsafe_to_forward exactly when
\* bit 1 is set, and is_no_cache_key exactly when bits 1..4 are 1110
\* ((number & 0x1e) = 0x1c): 28 and 29 are NoCacheKey, 11 is CacheKey.
C11_SemanticsPredicates ==
    pc = "predicates" =>
        LET n == Option_number(opt) IN
        /\ out.critical # out.elective
        /\ out.unsafe_to_forward # out.safe_to_forward
        /\ out.cache_key # out.no_cache_key
        /\ out.critical <=> n % 2 = 1
        /\ out.unsafe_to_forward <=> (n \div 2) % 2 = 1
        /\ out.no_cache_key <=> (n \div 2) % 16 = 14
        /\ n \in {28, 29} => out.no_cache_key
        /\ n = 11 => out.cache_key

\* C11 witness: Unknown with number 29 is critical, safe to forward and
\* NoCacheKey.
C11_Witness ==
    /\ pc = "predicates"
    /\ opt.kind = "Unknown"
    /\ Option_number(opt) = 29
    /\ out.critical /\ ~out.elective
    /\ out.safe_to_forward /\ ~out.unsafe_to_forward
    /\ out.no_cache_key /\ ~out.cache_key

\* C12: wherever the strict from_raw(number, bytes) returns Ok(t), the lenient
\* Option::from_raw(number, bytes) returns an option of the same kind as t,
\* with the same number() and the same serialized value bytes.
C12_DecodePathsAgree ==
    (pc = "decoded_both" /\ out.strict.ok) =>
        LET t == out.strict.o
            l == out.lenient
        IN  /\ l.kind = t.kind
            /\ Option_number(l) = Byteable_number(t)
            /\ Option_value_to_bytes(l) = Byteable_to_bytes(t)

\* ------------------------------------------------------------- header codec
\* Messages of the header specification hold at most MaxOptions options.
MaxOptions == 3

\* The Byteable handed to build_header, as build_header sees it: its number()
\* and its bytes_len().
HeaderNumbers == {0, 7, 11, 12, 13, 268, 269, 281, 64999, 65000, 65535}
HeaderLens == {0, 12, 13, 268, 269, 64999, 65000}
Byteable(n, l) == [number |-> n, bytes_len |-> l]

\* build_header without its order check.
BadOrderUnchecked(n, last) == FALSE

\* build_header: option.number() < *last_option_number
BadOrder(n, last) == n < last

\* The tiers with 13 still encoded in the nibble alone.
TierThirteenDirect(v) ==
    IF v <= 13 THEN [nibble |-> v, ext |-> <<>>]
    ELSE IF v <= 268 THEN [nibble |-> 13, ext |-> <<(v - 13) % 256>>]
    ELSE [nibble |-> 14,
          ext |-> <<((v - 269) \div 256) % 256, (v - 269) % 256>>]

\* The tiers with the two extension bytes pushed low byte first.
TierLowByteFirst(v) ==
    IF v <= 12 THEN [nibble |-> v, ext |-> <<>>]
    ELSE IF v <= 268 THEN [nibble |-> 13, ext |-> <<(v - 13) % 256>>]
    ELSE [nibble |-> 14,
          ext |-> <<(v - 269) % 256, ((v - 269) \div 256) % 256>>]

\* The match build_header applies to the delta and to the length, for a value
\* in 0..64999: the nibble and the extension bytes pushed (`as u8` is % 256).
Tier(v) ==
    IF v <= 12 THEN [nibble |-> v, ext |-> <<>>]
    ELSE IF v <= 268 THEN [nibble |-> 13, ext |-> <<(v - 13) % 256>>]
    ELSE [nibble |-> 14,
          ext |-> <<((v - 269) \div 256) % 256, (v - 269) % 256>>]

Built(bs) == [panic |-> FALSE, msg |-> "", bytes |-> bs]
Panicked(msg) == [panic |-> TRUE, msg |-> msg, bytes |-> <<>>]

\* build_header(option, last_option_number): the header returned or the
\* panic, and the cursor afterwards.
build_header(o, last) ==
    IF BadOrder(o.number, last)
    THEN [result |-> Panicked("bad order"), last |-> last]
    ELSE LET delta == o.number - last
             length == o.bytes_len
             first == ((Tier(delta).nibble * 16) % 256) + Tier(length).nibble
         IN  IF delta > 64999
             THEN [result |-> Panicked("unreachable"), last |-> last]
             ELSE IF length > 64999
             THEN [result |-> Panicked("option too big"), last |-> last]
             ELSE [result |-> Built(<<first>> \o Tier(delta).ext \o Tier(length).ext),
                   last |-> (last + delta) % 65536]

\* The receiving side, as the specification's section 4.4 and 6 give it: split
\* the first byte into nibbles; nibble 13 reads one extension byte E and means
\* E + 13, nibble 14 reads two big-endian bytes E and means E + 269; the
\* delta's extension bytes come before the length's.
ExtCount(nibble) == IF nibble = 13 THEN 1 ELSE IF nibble = 14 THEN 2 ELSE 0
DeltaNibble(h) == h[1] \div 16
LengthNibble(h) == h[1] % 16
DeltaExt(h) == SubSeq(h, 2, 1 + ExtCount(DeltaNibble(h)))
LengthExt(h) ==
    SubSeq(h, 2 + ExtCount(DeltaNibble(h)),
              1 + ExtCount(DeltaNibble(h)) + ExtCount(LengthNibble(h)))
Extend(nibble, ext) ==
    IF nibble = 13 THEN ext[1] + 13
    ELSE IF nibble = 14 THEN ext[1] * 256 + ext[2] + 269
    ELSE nibble
DecodeHeader(h) ==
    [delta |-> Extend(DeltaNibble(h), DeltaExt(h)),
     length |-> Extend(LengthNibble(h), LengthExt(h)),
     size |-> 1 + ExtCount(DeltaNibble(h)) + ExtCount(LengthNibble(h))]

CodecIdle ==
    /\ number = 0 /\ bytes = <<>> /\ opt = None /\ out = None

InitHeader ==
    /\ pc = "encoding"
    /\ cursor = 0
    /\ option = None
    /\ before = 0
    /\ header = Built(<<>>)
    /\ count = 0
    /\ running = 0
    /\ CodecIdle
    /\ OptionsIdle

\* build_header(option, &mut cursor) for the next option of the message.
BuildHeader ==
    /\ pc = "encoding"
    /\ count < MaxOptions
    /\ \E n \in HeaderNumbers, l \in HeaderLens :
        LET r == build_header(Byteable(n, l), cursor) IN
        /\ option' = Byteable(n, l)
        /\ before' = cursor
        /\ header' = r.result
        /\ cursor' = r.last
        /\ pc' = IF r.result.panic THEN "panicked" ELSE "written"
    /\ count' = count + 1
    /\ UNCHANGED <<running, codecVars, optionsVars>>

\* The receiver reads the header just written and advances its running number.
ReadHeader ==
    /\ pc = "written"
    /\ pc' = "encoding"
    /\ running' = running + DecodeHeader(header.bytes).delta
    /\ UNCHANGED <<cursor, option, before, header, count, codecVars, optionsVars>>

NextHeader ==
    \/ BuildHeader
    \/ ReadHeader

SpecHeader == InitHeader /\ [][NextHeader]_vars

\* ------------------------------------------------------------- claims: header

\* C3: build_header panics with "bad order", returns no header and leaves the
\* cursor where it was whenever option.number() is below the cursor.
C3_BadOrderIsFatal ==
    (count > 0 /\ option.number < before) =>
        /\ header = Panicked("bad order")
        /\ pc = "panicked"
        /\ cursor = before

\* C3 witness: number 11 and then number 7, the cursor having started at 0:
\* the second call is fatal.
C3_Witness ==
    /\ count = 2
    /\ before = 11
    /\ option.number = 7
    /\ header = Panicked("bad order")
    /\ cursor = 11

\* The nibble and extension bytes claimed at the boundaries 12, 13, 268, 269
\* and 64999 (whose extension bytes are `top`), for a value v.
AtBoundary(v, nibble, ext, top) ==
    /\ v = 12 => nibble = 12 /\ ext = <<>>
    /\ v = 13 => nibble = 13 /\ ext = <<0>>
    /\ v = 268 => nibble = 13 /\ ext = <<255>>
    /\ v = 269 => nibble = 14 /\ ext = <<0, 0>>
    /\ v = 64999 => nibble = 14 /\ ext = top

BoundariesEncodeAs(top) ==
    (count > 0 /\ ~header.panic) =>
        LET h == header.bytes IN
        /\ Len(h) = 1 + ExtCount(DeltaNibble(h)) + ExtCount(LengthNibble(h))
        /\ AtBoundary(option.number - before, DeltaNibble(h), DeltaExt(h), top)
        /\ AtBoundary(option.bytes_len, LengthNibble(h), LengthExt(h), top)

\* C4 as stated: 12 -> nibble 12; 13 -> nibble 13, {0}; 268 -> nibble 13, {255};
\* 269 -> nibble 14, {0,0}; 64999 -> nibble 14, {255,255}; for delta and length.
C4_BoundariesAsStated == BoundariesEncodeAs(<<255, 255>>)

\* C4 amended: the same, with 64999 -> nibble 14 and extension bytes {252, 218}
\* (64999 - 269 = 64730 = 0xFCDA).
C4_Boundaries == BoundariesEncodeAs(<<252, 218>>)

\* C4 witness: a delta of 64999 and a length of 13 in one header.
C4_Witness ==
    /\ count > 0
    /\ option = Byteable(64999, 13)
    /\ before = 0
    /\ header = Built(<<237, 252, 218, 0>>)

\* C5: along a message, each header decodes to its option's value length, the
\* decoded delta added to the previous number gives the option's number, the
\* cursor is that number after the call, and the receiver's running number
\* follows the cursor.
C5_HeaderRoundTrip ==
    /\ (count > 0 /\ ~header.panic) =>
        LET d == DecodeHeader(header.bytes) IN
        /\ d.size = Len(header.bytes)
        /\ d.length = option.bytes_len
        /\ before + d.delta = option.number
        /\ cursor = option.number
    /\ pc = "written" => running = before
    /\ pc = "encoding" => running = cursor

\* C5 witness: the third option of a message, number 281 after 13 with a value
\* of 269 bytes (one delta extension byte, two length extension bytes), read back.
C5_Witness ==
    /\ count = 3
    /\ pc = "encoding"
    /\ before = 13
    /\ option = Byteable(281, 269)
    /\ Len(header.bytes) = 4
    /\ running = 281

\* ------------------------------------------------------------- Options collection
\* At most MaxPushes options are pushed into one collection.
MaxPushes == 3

\* The options pushed are the results of the strict from_raw on these inputs.
PushNumbers == {2, 11, 29, 35, 285}
PushValues == {<<97>>, <<98>>}

\* enum OptionKind: a known kind, or Unknown(number).
KindOf(name) == [kind |-> name, n |-> 0]
KindUnknown(n) == [kind |-> "Unknown", n |-> n]

\* OptionType::kind
OptionType_kind(o) ==
    IF o.kind = "Unknown" THEN KindUnknown(Byteable_number(o)) ELSE KindOf(o.kind)

\* #[derive(PartialOrd, Ord)] on OptionKind: variants in declaration order (the
\* options! table's order, then Unknown), then the carried number.
KindRank(k) ==
    IF k.kind = "Unknown" THEN Len(OptionsTable) + 1
    ELSE CHOOSE i \in 1..Len(OptionsTable) : OptionsTable[i].name = k.kind

KindLess(a, b) ==
    \/ KindRank(a) < KindRank(b)
    \/ KindRank(a) = KindRank(b) /\ a.n < b.n

\* A push that inserts a fresh Vec under the key, dropping what was there.
PushReplacing(m, o) ==
    LET k == OptionType_kind(o) IN
    [x \in DOMAIN m \cup {k} |-> IF x = k THEN <<o>> ELSE m[x]]

\* Options::push: map.entry(option.kind()).or_insert_with(Vec::new).push(option)
Push(m, o) ==
    LET k == OptionType_kind(o) IN
    [x \in DOMAIN m \cup {k} |->
        IF x # k THEN m[x]
        ELSE IF k \in DOMAIN m THEN Append(m[k], o)
        ELSE <<o>>]

\* Options::get_all_of: map.get(&kind)
Some(v) == [some |-> TRUE, v |-> v]
Nothing == [some |-> FALSE, v |-> <<>>]
get_all_of(m, k) == IF k \in DOMAIN m THEN Some(m[k]) ELSE Nothing

\* map.iter().flat_map(|(_k, v)| v): the Vecs in ascending key order, joined.
RECURSIVE FlatFrom(_, _)
FlatFrom(m, keys) ==
    IF keys = {} THEN <<>>
    ELSE LET k == CHOOSE x \in keys : \A y \in keys \ {x} : KindLess(x, y)
         IN  m[k] \o FlatFrom(m, keys \ {k})

Flatten(m) == FlatFrom(m, DOMAIN m)

\* The kinds asked of get_all_of: those of the pushed options, and one never pushed.
PushKinds ==
    {OptionType_kind(r.o) :
        r \in {x \in {from_raw(n, v) : n \in PushNumbers, v \in PushValues} : x.ok}}
    \cup {KindOf("UriHost")}

InitOptions ==
    /\ pc = "pushing"
    /\ map = <<>>
    /\ log = <<>>
    /\ place = 0
    /\ yielded = <<>>
    /\ CodecIdle
    /\ HeaderIdle

\* options.push(from_raw(n, v)?)
PushOption ==
    /\ pc = "pushing"
    /\ Len(log) < MaxPushes
    /\ \E n \in PushNumbers, v \in PushValues :
        /\ from_raw(n, v).ok
        /\ map' = Push(map, from_raw(n, v).o)
        /\ log' = Append(log, from_raw(n, v).o)
    /\ UNCHANGED <<pc, place, yielded, codecVars, headerVars>>

\* options.get_all_of(kind)
GetAllOf ==
    /\ pc = "pushing"
    /\ pc' = "got"
    /\ \E k \in PushKinds : out' = [asked |-> k, got |-> get_all_of(map, k)]
    /\ UNCHANGED <<number, bytes, opt, optionsVars, headerVars>>

\* options.iter(): OptionsIterator::new
Iter ==
    /\ pc = "pushing"
    /\ pc' = "iterating"
    /\ place' = 0
    /\ yielded' = <<>>
    /\ UNCHANGED <<map, log, codecVars, headerVars>>

\* OptionsIterator::next: i = place; place += 1; the i-th of the flattened map.
IterNext ==
    /\ pc = "iterating"
    /\ place' = place + 1
    /\ IF place < Len(Flatten(map))
       THEN /\ yielded' = Append(yielded, Flatten(map)[place + 1])
            /\ pc' = pc
       ELSE /\ yielded' = yielded
            /\ pc' = "done"
    /\ UNCHANGED <<map, log, codecVars, headerVars>>

NextOptions ==
    \/ PushOption
    \/ GetAllOf
    \/ Iter
    \/ IterNext

SpecOptions == InitOptions /\ [][NextOptions]_vars

\* ------------------------------------------------------------- claims: Options

\* C1: the sequence iter() yields is in non-decreasing option-number order.
C1_IterAscendingByNumber ==
    \A i \in 1..(Len(yielded) - 1) :
        Byteable_number(yielded[i]) <= Byteable_number(yielded[i + 1])

\* The options pushed under kind k, in push order.
PushedUnder(k) == SelectSeq(log, LAMBDA o : OptionType_kind(o) = k)

\* C10: get_all_of(kind) is exactly the options pushed under the kind, in push
\* order, or nothing if none was pushed; iter() yields the options of a kind in
\* push order, all of them once it is exhausted.
C10_RepeatedOptionsKeepOrder ==
    /\ \A k \in PushKinds :
        /\ get_all_of(map, k) =
            IF PushedUnder(k) = <<>> THEN Nothing ELSE Some(PushedUnder(k))
        /\ LET seen == SelectSeq(yielded, LAMBDA o : OptionType_kind(o) = k) IN
           /\ Len(seen) <= Len(PushedUnder(k))
           /\ seen = SubSeq(PushedUnder(k), 1, Len(seen))
           /\ pc = "done" => seen = PushedUnder(k)
    /\ pc = "got" =>
        out.got = IF PushedUnder(out.asked) = <<>> THEN Nothing
                  ELSE Some(PushedUnder(out.asked))

\* C10 witness: UriPath "a", ProxyUri "a", UriPath "b" pushed in that order
\* iterate as UriPath "a", UriPath "b", ProxyUri "a".
C10_Witness ==
    /\ pc = "done"
    /\ log = <<Typed("UriPath", <<97>>), Typed("ProxyUri", <<97>>),
               Typed("UriPath", <<98>>)>>
    /\ yielded = <<Typed("UriPath", <<97>>), Typed("UriPath", <<98>>),
                   Typed("ProxyUri", <<97>>)>>

====
